---- MODULE Spec2Model ----
(***************************************************************************)
(* A model of the note-graph engine of main.py: the corpus scanner, the    *)
(* metadata extractor, the link resolver, the backlink engine and the      *)
(* renderer.  A Python str is a sequence of one-character strings, so that *)
(* every conversion (strip, lower, normpath, html.escape, the regular      *)
(* expressions) is computed character by character as the code does.       *)
(***************************************************************************)
EXTENDS Naturals, Integers, Sequences, FiniteSets, TLC

VARIABLES
    disk,       \* the note directory: a function from file paths to contents
    org_files,  \* the list[OrgFile] returned by the last scan_org_files
    args,       \* the arguments of the engine call under examination
    result,     \* what that call returned
    pc          \* "call" before the engine operation ran, "done" after

vars == <<disk, org_files, args, result, pc>>

(***************************************************************************)
(* Characters and the str methods the engine uses                          *)
(***************************************************************************)

\* The ASCII characters from code 32 to 126, in code order (the grave accent,
\* which a TLA+ string cannot hold, is spelled out).
Ascii ==
    <<" ", "!", "\"", "#", "$", "%", "&", "'", "(", ")", "*", "+", ",", "-",
      ".", "/", "0", "1", "2", "3", "4", "5", "6", "7", "8", "9", ":", ";",
      "<", "=", ">", "?", "@", "A", "B", "C", "D", "E", "F", "G", "H", "I",
      "J", "K", "L", "M", "N", "O", "P", "Q", "R", "S", "T", "U", "V", "W",
      "X", "Y", "Z", "[", "\\", "]", "^", "_", "GRAVE", "a", "b", "c", "d", "e",
      "f", "g", "h", "i", "j", "k", "l", "m", "n", "o", "p", "q", "r", "s",
      "t", "u", "v", "w", "x", "y", "z", "{", "|", "}", "~">>

\* Python's None: a value no str equals.
None == <<"None">>

\* ord(c) for the characters of the model ("\t" 9, "\n" 10, "\r" 13).
Ord(c) ==
    IF c = "\t" THEN 9
    ELSE IF c = "\n" THEN 10
    ELSE IF c = "\r" THEN 13
    ELSE 31 + (CHOOSE i \in DOMAIN Ascii : Ascii[i] = c)

\* str.lower() on one character.
LowerChar(c) ==
    LET n == Ord(c) IN IF n >= 65 /\ n <= 90 THEN Ascii[n + 32 - 31] ELSE c

\* str.lower().
Lower(s) == [i \in DOMAIN s |-> LowerChar(s[i])]

\* What \s matches and str.strip() removes.
IsSpace(c) == c \in {" ", "\t", "\n", "\r"}

\* s[i:] and s[:i] with Python's 0-based offsets.
From(s, i) == IF i >= Len(s) THEN <<>> ELSE SubSeq(s, i + 1, Len(s))
UpTo(s, i) == IF i <= 0 THEN <<>> ELSE SubSeq(s, 1, IF i > Len(s) THEN Len(s) ELSE i)

\* The number of leading characters of s that lie in cs (what lstrip removes).
RECURSIVE LeadingIn(_, _)
LeadingIn(s, cs) ==
    IF s = <<>> \/ Head(s) \notin cs THEN 0 ELSE 1 + LeadingIn(Tail(s), cs)

\* The number of trailing characters of s that lie in cs.
RECURSIVE TrailingIn(_, _)
TrailingIn(s, cs) ==
    IF s = <<>> \/ s[Len(s)] \notin cs THEN 0
    ELSE 1 + TrailingIn(SubSeq(s, 1, Len(s) - 1), cs)

Whitespace == {" ", "\t", "\n", "\r"}

\* str.lstrip(chars), str.lstrip(), str.rstrip(), str.strip().
LStripChars(s, cs) == From(s, LeadingIn(s, cs))
LStrip(s) == LStripChars(s, Whitespace)
RStrip(s) == UpTo(s, Len(s) - TrailingIn(s, Whitespace))
Strip(s) == RStrip(LStrip(s))

\* str.startswith and str.endswith.
StartsWith(s, p) == Len(p) <= Len(s) /\ SubSeq(s, 1, Len(p)) = p
EndsWith(s, p) == Len(p) <= Len(s) /\ SubSeq(s, Len(s) - Len(p) + 1, Len(s)) = p

\* str.find(p): the 0-based offset of the first occurrence of p, or -1.
Find(s, p) ==
    LET hits == {i \in 0..(Len(s) - Len(p)) : SubSeq(s, i + 1, i + Len(p)) = p}
    IN  IF Len(p) > Len(s) \/ hits = {} THEN -1
        ELSE CHOOSE i \in hits : \A j \in hits : i <= j

\* p in s.
Contains(s, p) == Find(s, p) >= 0

\* s.split(p, 1)[0].
SplitFirst(s, p) == IF Contains(s, p) THEN UpTo(s, Find(s, p)) ELSE s

\* s.split(c) for a one-character separator: the list of fields.
RECURSIVE Split(_, _)
Split(s, c) ==
    LET i == Find(s, <<c>>)
    IN  IF i < 0 THEN <<s>> ELSE <<UpTo(s, i)>> \o Split(From(s, i + 1), c)

\* c.join(parts).
RECURSIVE Join(_, _)
Join(parts, c) ==
    IF parts = <<>> THEN <<>>
    ELSE IF Len(parts) = 1 THEN parts[1]
    ELSE parts[1] \o c \o Join(Tail(parts), c)

\* s.replace(a, b) for one-character a and b.
Replace(s, a, b) == [i \in DOMAIN s |-> IF s[i] = a THEN b ELSE s[i]]

\* str.splitlines(): lines end at "\n", "\r" or "\r\n"; a final line break
\* opens no further line.
RECURSIVE SplitLines(_)
SplitLines(s) ==
    IF s = <<>> THEN <<>>
    ELSE
        LET brk == {i \in 1..Len(s) : s[i] \in {"\n", "\r"}} IN
        IF brk = {} THEN <<s>>
        ELSE
            LET i == CHOOSE k \in brk : \A j \in brk : k <= j
                n == IF s[i] = "\r" /\ i < Len(s) /\ s[i + 1] = "\n" THEN i + 1 ELSE i
            IN  <<UpTo(s, i - 1)>> \o SplitLines(From(s, n))

\* Lexicographic s < t and s <= t on strings, by character code.
RECURSIVE StrLess(_, _)
StrLess(s, t) ==
    IF t = <<>> THEN FALSE
    ELSE IF s = <<>> THEN TRUE
    ELSE IF Head(s) = Head(t) THEN StrLess(Tail(s), Tail(t))
    ELSE Ord(Head(s)) < Ord(Head(t))

StrLeq(s, t) == s = t \/ StrLess(s, t)

(***************************************************************************)
(* Metadata extractor                                                      *)
(***************************************************************************)

\* The literal texts of the patterns.
TitleKey == <<"#", "+", "t", "i", "t", "l", "e", ":">>
IdKey == <<":", "i", "d", ":">>
DotOrg == <<".", "o", "r", "g">>

\* The result of a failed re.match.
NoMatch == <<"NoMatch">>

\* TITLE_RE.match(line), returning group(1) or NoMatch.  After ^\s* and the
\* case-insensitive literal, \s* is greedy: it first takes every leading
\* space of the rest and gives them back one at a time; (.+?) then takes the
\* fewest characters, at least one, that leave only \s*$ behind.
TITLE_RE_match(line) ==
    LET body == LStrip(line) IN
    IF ~StartsWith(Lower(body), TitleKey) THEN NoMatch
    ELSE
        LET rest == From(body, Len(TitleKey))
            lead == LeadingIn(rest, Whitespace)
            \* \s* may take k characters when one is left for (.+?)
            ok == {k \in 0..lead : k < Len(rest)}
        IN  IF ok = {} THEN NoMatch
            ELSE
                LET k == CHOOSE m \in ok : \A j \in ok : j <= m
                    tail == From(rest, k)
                    n == Len(RStrip(tail))
                IN  UpTo(tail, IF n < 1 THEN 1 ELSE n)

\* ID_RE.match(line), returning group(1) or NoMatch: (\S+) is the rest of the
\* line without its surrounding spaces, which must hold no space itself.
ID_RE_match(line) ==
    LET body == LStrip(line) IN
    IF ~StartsWith(Lower(body), IdKey) THEN NoMatch
    ELSE
        LET value == Strip(From(body, Len(IdKey))) IN
        IF value = <<>> \/ \E i \in DOMAIN value : IsSpace(value[i])
        THEN NoMatch
        ELSE value

\* The loop of extract_org_title over the lines: the first match wins.
RECURSIVE FirstTitle(_, _)
FirstTitle(lines, fallback) ==
    IF lines = <<>> THEN fallback
    ELSE IF TITLE_RE_match(Head(lines)) # NoMatch
         THEN Strip(TITLE_RE_match(Head(lines)))
    ELSE FirstTitle(Tail(lines), fallback)

extract_org_title(content, fallback) == FirstTitle(SplitLines(content), fallback)

\* The loop of extract_org_id over the lines.
RECURSIVE FirstId(_)
FirstId(lines) ==
    IF lines = <<>> THEN None
    ELSE IF ID_RE_match(Head(lines)) # NoMatch
         THEN Strip(ID_RE_match(Head(lines)))
    ELSE FirstId(Tail(lines))

extract_org_id(content) == FirstId(SplitLines(content))

(***************************************************************************)
(* Paths                                                                   *)
(***************************************************************************)

\* The loop of posixpath.normpath over the components.
RECURSIVE NormComps(_, _, _)
NormComps(comps, new_comps, initial_slashes) ==
    IF comps = <<>> THEN new_comps
    ELSE
        LET comp == Head(comps)
            dotdot == <<".", ".">>
        IN  IF comp = <<>> \/ comp = <<".">>
            THEN NormComps(Tail(comps), new_comps, initial_slashes)
            ELSE IF \/ comp # dotdot
                    \/ (initial_slashes = 0 /\ new_comps = <<>>)
                    \/ (new_comps # <<>> /\ new_comps[Len(new_comps)] = dotdot)
            THEN NormComps(Tail(comps), Append(new_comps, comp), initial_slashes)
            ELSE IF new_comps # <<>>
            THEN NormComps(Tail(comps), SubSeq(new_comps, 1, Len(new_comps) - 1),
                           initial_slashes)
            ELSE NormComps(Tail(comps), new_comps, initial_slashes)

\* os.path.normpath on a POSIX path.
normpath(path) ==
    IF path = <<>> THEN <<".">>
    ELSE
        LET initial_slashes ==
                IF ~StartsWith(path, <<"/">>) THEN 0
                ELSE IF StartsWith(path, <<"/", "/">>) /\ ~StartsWith(path, <<"/", "/", "/">>)
                THEN 2
                ELSE 1
            comps == NormComps(Split(path, "/"), <<>>, initial_slashes)
            joined == [i \in 1..initial_slashes |-> "/"] \o Join(comps, <<"/">>)
        IN  IF joined = <<>> THEN <<".">> ELSE joined

\* os.path.dirname.
dirname(p) ==
    LET slashes == {i \in 1..Len(p) : p[i] = "/"}
        i == IF slashes = {} THEN 0 ELSE CHOOSE k \in slashes : \A j \in slashes : j <= k
        head == UpTo(p, i)
    IN  IF head # <<>> /\ \E k \in DOMAIN head : head[k] # "/"
        THEN UpTo(head, Len(head) - TrailingIn(head, {"/"}))
        ELSE head

\* os.path.join of two parts.
join(a, b) ==
    IF StartsWith(b, <<"/">>) THEN b
    ELSE IF a = <<>> \/ EndsWith(a, <<"/">>) THEN a \o b
    ELSE a \o <<"/">> \o b

\* normalize_relative_path: lstrip("./") removes every leading "." and "/".
normalize_relative_path(path_value) ==
    LET normalized == normpath(Replace(path_value, "\\", "/")) IN
    IF normalized = <<".">> THEN <<>>
    ELSE LStripChars(normalized, {".", "/"})

(***************************************************************************)
(* Link resolver                                                           *)
(***************************************************************************)

\* dict.get: m is a function from keys to values.
Get(m, k) == IF k \in DOMAIN m THEN m[k] ELSE None

\* Lines 105-120: the target trimmed and cut at its fragment, then told apart
\* by scheme.  ["id", v]: looked up as an identifier; ["path", t]: resolved
\* as a path; ["none"]: unresolved at once.
link_scheme(raw_target) ==
    LET target == Strip(raw_target) IN
    IF target = <<>> THEN [kind |-> "none"]
    ELSE
        LET t1 == SplitFirst(target, <<":", ":">>)
            t2 == SplitFirst(t1, <<"#">>)
        IN  IF StartsWith(Lower(t2), <<"i", "d", ":">>)
            THEN [kind |-> "id", value |-> Lower(Strip(From(t2, 3)))]
            ELSE IF StartsWith(t2, <<"f", "i", "l", "e", ":">>)
            THEN [kind |-> "path", target |-> From(t2, 5)]
            ELSE IF Contains(t2, <<":", "/", "/">>)
            THEN [kind |-> "none"]
            ELSE IF Contains(t2, <<":">>) /\ ~EndsWith(t2, DotOrg)
            THEN [kind |-> "none"]
            ELSE [kind |-> "path", target |-> t2]

\* Lines 122-126: the candidate path of a path target.
link_candidate(source_relative_path, target) ==
    LET source_dir == dirname(source_relative_path) IN
    IF StartsWith(target, <<"/">>)
    THEN normalize_relative_path(LStripChars(target, {"/"}))
    ELSE normalize_relative_path(join(source_dir, target))

\* match_candidate without the test that the candidate lacks the extension.
match_candidate_any_suffix(candidate, known_paths) ==
    IF candidate = <<>> THEN None
    ELSE IF candidate \in known_paths THEN candidate
    ELSE IF (candidate \o DotOrg) \in known_paths THEN candidate \o DotOrg
    ELSE None

\* Lines 128-136: the candidate itself, else the candidate with the note
\* extension, else nothing.
match_candidate(candidate, known_paths) ==
    IF candidate = <<>> THEN None
    ELSE IF candidate \in known_paths THEN candidate
    ELSE IF ~EndsWith(candidate, DotOrg) /\ (candidate \o DotOrg) \in known_paths
    THEN candidate \o DotOrg
    ELSE None

resolve_link_target(source_relative_path, raw_target, known_paths, id_to_path) ==
    LET scheme == link_scheme(raw_target) IN
    IF scheme.kind = "none" THEN None
    ELSE IF scheme.kind = "id" THEN Get(id_to_path, scheme.value)
    ELSE match_candidate(link_candidate(source_relative_path, scheme.target),
                         known_paths)

(***************************************************************************)
(* Corpus scanner                                                          *)
(***************************************************************************)

\* The directory names os.walk is told not to enter.
SkippedDirs ==
    { <<".", "g", "i", "t">>, <<".", "v", "e", "n", "v">>, <<"v", "e", "n", "v">>,
      <<"_", "_", "p", "y", "c", "a", "c", "h", "e", "_", "_">> }

\* Path.stem: the name up to its last dot, unless that dot is the first or
\* the last character.
stem(name) ==
    LET dots == {i \in 1..Len(name) : name[i] = "."}
        i == IF dots = {} THEN 0 ELSE CHOOSE k \in dots : \A j \in dots : j <= k
    IN  IF i > 1 /\ i < Len(name) THEN UpTo(name, i - 1) ELSE name

\* Whether the walk reaches the file at segs (directories, then the name) and
\* keeps it: no directory on the way is skipped, and the name ends in .org.
walked(segs) ==
    /\ \A i \in 1..(Len(segs) - 1) : segs[i] \notin SkippedDirs
    /\ EndsWith(Lower(segs[Len(segs)]), DotOrg)

\* The OrgFile built for one file.
OrgFile(segs, content) ==
    [ path |-> segs,
      relative_path |-> normalize_relative_path(Join(segs, <<"/">>)),
      title |-> extract_org_title(content, stem(segs[Len(segs)])),
      file_id |-> extract_org_id(content),
      content |-> content ]

\* The lists that hold every record of the set exactly once: os.walk lists
\* a directory in no particular order.
Orderings(records) ==
    { fs \in [1..Cardinality(records) -> records] :
        \A r \in records : \E i \in DOMAIN fs : fs[i] = r }

scan_key(f) == Lower(f.relative_path)

\* What org_files.sort(key=scan_key) leaves: the keys never decrease, and
\* records of equal key stay in the order of the listing.
scan_sorted(fs) ==
    \A i \in 1..(Len(fs) - 1) : StrLeq(scan_key(fs[i]), scan_key(fs[i + 1]))

\* Path.read_text on the stored text: text mode reads "\r\n" and a lone "\r"
\* as "\n".
RECURSIVE read_text(_)
read_text(stored) ==
    IF stored = <<>> THEN <<>>
    ELSE IF Head(stored) = "\r"
         THEN <<"\n">> \o read_text(IF Len(stored) > 1 /\ stored[2] = "\n"
                                    THEN From(stored, 2) ELSE Tail(stored))
         ELSE <<Head(stored)>> \o read_text(Tail(stored))

\* scan_org_files over the directory d (a function from paths to the stored
\* texts): the lists the scan can return.
scan_org_files(d) ==
    { fs \in Orderings({OrgFile(segs, read_text(d[segs])) :
                           segs \in {p \in DOMAIN d : walked(p)}}) :
        scan_sorted(fs) }

\* The indices every caller builds from a scan (lines 141-142, 163-164,
\* 319-320): for a duplicated identifier the later note of the list wins.
known_paths_of(files) == {files[i].relative_path : i \in DOMAIN files}

\* id_to_path_of with the identifiers kept as written, not lower-cased.
id_to_path_as_written(files) ==
    LET with_id == {i \in DOMAIN files : files[i].file_id # None}
        keys == {files[i].file_id : i \in with_id}
        last(k) == CHOOSE i \in with_id :
                      /\ files[i].file_id = k
                      /\ \A j \in with_id : files[j].file_id = k => j <= i
    IN  [k \in keys |-> files[last(k)].relative_path]

id_to_path_of(files) ==
    LET with_id == {i \in DOMAIN files : files[i].file_id # None}
        keys == {Lower(files[i].file_id) : i \in with_id}
        last(k) == CHOOSE i \in with_id :
                      /\ Lower(files[i].file_id) = k
                      /\ \A j \in with_id : Lower(files[j].file_id) = k => j <= i
    IN  [k \in keys |-> files[last(k)].relative_path]

(***************************************************************************)
(* Backlink engine                                                         *)
(***************************************************************************)

\* The first offset at or after i (0-based) where s holds c, or -1.
FindFrom(s, c, i) ==
    LET hits == {k \in i..(Len(s) - 1) : s[k + 1] = c}
    IN  IF hits = {} THEN -1 ELSE CHOOSE k \in hits : \A j \in hits : k <= j

\* What ORG_LINK_RE yields where it does not match.
NoLink == [start |-> -1, end |-> -1, target |-> <<>>, label |-> None]

\* ORG_LINK_RE matched at offset i of s: [[ then one or more characters that
\* are not ], then ], then an optional [label], then ].  The record of the
\* match (end is the offset after it), or NoLink.
ORG_LINK_RE_match(s, i) ==
    IF ~(i + 2 <= Len(s) /\ s[i + 1] = "[" /\ s[i + 2] = "[") THEN NoLink
    ELSE
        LET j == FindFrom(s, "]", i + 2) IN
        IF j < i + 3 \/ j + 1 >= Len(s) THEN NoLink
        ELSE IF s[j + 2] = "]"
        THEN [start |-> i, end |-> j + 2, target |-> SubSeq(s, i + 3, j), label |-> None]
        ELSE IF s[j + 2] = "["
        THEN
            LET k == FindFrom(s, "]", j + 2) IN
            IF k < 0 \/ k + 1 >= Len(s) \/ s[k + 2] # "]" THEN NoLink
            ELSE [start |-> i, end |-> k + 2, target |-> SubSeq(s, i + 3, j),
                  label |-> SubSeq(s, j + 3, k)]
        ELSE NoLink

\* ORG_LINK_RE.finditer(s) from offset i on: the matches from left to right,
\* none overlapping another.
RECURSIVE ORG_LINK_RE_finditer(_, _)
ORG_LINK_RE_finditer(s, i) ==
    IF i >= Len(s) THEN <<>>
    ELSE
        LET m == ORG_LINK_RE_match(s, i) IN
        IF m.start < 0 THEN ORG_LINK_RE_finditer(s, i + 1)
        ELSE <<m>> \o ORG_LINK_RE_finditer(s, m.end)

extract_org_link_targets(content) ==
    LET matches == ORG_LINK_RE_finditer(content, 0)
    IN  [k \in DOMAIN matches |-> Strip(matches[k].target)]

\* The sort key of find_backlinks, and its order on two notes.
backlink_key(f) == <<Lower(f.title), Lower(f.relative_path)>>
backlink_leq(f, g) ==
    \/ StrLess(backlink_key(f)[1], backlink_key(g)[1])
    \/ /\ backlink_key(f)[1] = backlink_key(g)[1]
       /\ StrLeq(backlink_key(f)[2], backlink_key(g)[2])

\* list.sort(key=backlink_key): a stable sort, here by insertion.
RECURSIVE backlink_insert(_, _)
backlink_insert(sorted, f) ==
    IF sorted = <<>> THEN <<f>>
    ELSE IF backlink_leq(sorted[Len(sorted)], f) THEN Append(sorted, f)
    ELSE Append(backlink_insert(SubSeq(sorted, 1, Len(sorted) - 1), f),
                sorted[Len(sorted)])

RECURSIVE backlink_sort(_)
backlink_sort(fs) ==
    IF fs = <<>> THEN <<>>
    ELSE backlink_insert(backlink_sort(SubSeq(fs, 1, Len(fs) - 1)), fs[Len(fs)])

\* The loop of find_backlinks from the i-th source on: the sources appended,
\* given those appended so far and the paths seen.
RECURSIVE find_backlinks_loop(_, _, _, _, _)
find_backlinks_loop(files, selected_path, i, backlinks, seen_sources) ==
    IF i > Len(files) THEN backlinks
    ELSE
        LET source == files[i]
            link_targets == extract_org_link_targets(source.content)
            hit == \E k \in DOMAIN link_targets :
                      /\ resolve_link_target(source.relative_path, link_targets[k],
                                             known_paths_of(files), id_to_path_of(files))
                            = selected_path
                      /\ source.relative_path \notin seen_sources
        IN  IF source.relative_path = selected_path
            THEN find_backlinks_loop(files, selected_path, i + 1, backlinks, seen_sources)
            ELSE IF hit
            THEN find_backlinks_loop(files, selected_path, i + 1, Append(backlinks, source),
                                     seen_sources \cup {source.relative_path})
            ELSE find_backlinks_loop(files, selected_path, i + 1, backlinks, seen_sources)

\* find_backlinks with a loop that does not pass over the selected note.
RECURSIVE find_backlinks_loop_with_self(_, _, _, _, _)
find_backlinks_loop_with_self(files, selected_path, i, backlinks, seen_sources) ==
    IF i > Len(files) THEN backlinks
    ELSE
        LET source == files[i]
            link_targets == extract_org_link_targets(source.content)
            hit == \E k \in DOMAIN link_targets :
                      /\ resolve_link_target(source.relative_path, link_targets[k],
                                             known_paths_of(files), id_to_path_of(files))
                            = selected_path
                      /\ source.relative_path \notin seen_sources
        IN  IF hit
            THEN find_backlinks_loop_with_self(files, selected_path, i + 1,
                                               Append(backlinks, source),
                                               seen_sources \cup {source.relative_path})
            ELSE find_backlinks_loop_with_self(files, selected_path, i + 1, backlinks,
                                               seen_sources)
find_backlinks_with_self(files, selected_path) ==
    backlink_sort(find_backlinks_loop_with_self(files, selected_path, 1, <<>>, {}))

find_backlinks(files, selected_path) ==
    backlink_sort(find_backlinks_loop(files, selected_path, 1, <<>>, {}))

\* One pass of the inner loop of build_backlink_counts without seen_targets.
count_target_unseen(st, source, raw_target, files) ==
    LET resolved == resolve_link_target(source.relative_path, raw_target,
                                        known_paths_of(files), id_to_path_of(files))
    IN  IF resolved = None \/ resolved = <<>> \/ resolved = source.relative_path
        THEN st
        ELSE IF resolved \in DOMAIN st.counts
        THEN [st EXCEPT !.counts[resolved] = @ + 1]
        ELSE st

\* One pass of the inner loop of build_backlink_counts (lines 170-175) on the
\* state st = [counts, seen_targets].
count_target(st, source, raw_target, files) ==
    LET resolved == resolve_link_target(source.relative_path, raw_target,
                                        known_paths_of(files), id_to_path_of(files))
    IN  IF resolved = None \/ resolved = <<>> \/ resolved = source.relative_path
           \/ resolved \in st.seen_targets
        THEN st
        ELSE IF resolved \in DOMAIN st.counts
        THEN [counts |-> [st.counts EXCEPT ![resolved] = @ + 1],
              seen_targets |-> st.seen_targets \cup {resolved}]
        ELSE st

\* The inner loop over the targets of one source, from the k-th on.
RECURSIVE count_targets(_, _, _, _, _)
count_targets(st, source, targets, k, files) ==
    IF k > Len(targets) THEN st
    ELSE count_targets(count_target(st, source, targets[k], files),
                       source, targets, k + 1, files)

\* The outer loop over the sources, from the i-th on: seen_targets starts
\* empty for every source.
RECURSIVE count_sources(_, _, _)
count_sources(counts, files, i) ==
    IF i > Len(files) THEN counts
    ELSE
        LET st == count_targets([counts |-> counts, seen_targets |-> {}], files[i],
                                extract_org_link_targets(files[i].content), 1, files)
        IN  count_sources(st.counts, files, i + 1)

build_backlink_counts(files) ==
    count_sources([p \in known_paths_of(files) |-> 0], files, 1)

(***************************************************************************)
(* Renderer                                                                *)
(***************************************************************************)

\* The concatenation of a list of strings: "".join(parts).
RECURSIVE Concat(_)
Concat(parts) == IF parts = <<>> THEN <<>> ELSE Head(parts) \o Concat(Tail(parts))

\* html.escape on one character, with quote=True.
html_escape_char(c) ==
    IF c = "&" THEN <<"&", "a", "m", "p", ";">>
    ELSE IF c = "<" THEN <<"&", "l", "t", ";">>
    ELSE IF c = ">" THEN <<"&", "g", "t", ";">>
    ELSE IF c = "\"" THEN <<"&", "q", "u", "o", "t", ";">>
    ELSE IF c = "'" THEN <<"&", "#", "x", "2", "7", ";">>
    ELSE <<c>>

\* html.escape.
html_escape(s) == Concat([i \in DOMAIN s |-> html_escape_char(s[i])])

\* The markup the renderer writes.
AnchorOpen ==
    <<"<", "a", " ", "c", "l", "a", "s", "s", "=", "'", "o", "r", "g", "-",
      "l", "i", "n", "k", "'", " ", "h", "r", "e", "f", "=", "'">>
ExternalAttrs ==
    <<"'", " ", "t", "a", "r", "g", "e", "t", "=", "'", "_", "b", "l", "a",
      "n", "k", "'", " ", "r", "e", "l", "=", "'", "n", "o", "o", "p",
      "e", "n", "e", "r", " ", "n", "o", "r", "e", "f", "e", "r", "r",
      "e", "r", "'", ">">>
AnchorClose == <<"<", "/", "a", ">">>
Spacer ==
    <<"<", "d", "i", "v", " ", "c", "l", "a", "s", "s", "=", "'", "s", "p",
      "a", "c", "e", "r", "'", ">", "<", "/", "d", "i", "v", ">">>

\* urllib.parse.quote_plus on one ASCII character: letters, digits and _.-~
\* stay, a space becomes +, any other becomes % and two hex digits.
HexDigits ==
    <<"0", "1", "2", "3", "4", "5", "6", "7", "8", "9", "A", "B", "C", "D",
      "E", "F">>
quote_plus_char(c) ==
    LET n == Ord(c) IN
    IF \/ (n >= 48 /\ n <= 57) \/ (n >= 65 /\ n <= 90) \/ (n >= 97 /\ n <= 122)
       \/ c \in {"_", ".", "-", "~"}
    THEN <<c>>
    ELSE IF c = " " THEN <<"+">>
    ELSE <<"%", HexDigits[(n \div 16) + 1], HexDigits[(n % 16) + 1]>>

quote_plus(s) == Concat([i \in DOMAIN s |-> quote_plus_char(s[i])])

\* note_href: "/?" and the urlencoded parameters.
note_href(relative_path, edit_mode) ==
    <<"/", "?", "f", "i", "l", "e", "=">> \o quote_plus(relative_path)
    \o (IF edit_mode THEN <<"&", "e", "d", "i", "t", "=", "1">> ELSE <<>>)

\* The characters a URL of URL_RE stops at.
UrlStop == Whitespace \cup {"<", ">", "'", "\"", "(", ")", "[", "]"}

\* URL_RE matched at offset i of s: http, an optional s, ://, then one or more
\* characters up to the first stop.  The offset after the match, or -1.
URL_RE_match(s, i) ==
    LET at == From(s, i)
        head == IF StartsWith(at, <<"h", "t", "t", "p", "s", ":", "/", "/">>) THEN 8
                ELSE IF StartsWith(at, <<"h", "t", "t", "p", ":", "/", "/">>) THEN 7
                ELSE 0
        body == From(at, head)
        n == LeadingIn(body, {body[k] : k \in DOMAIN body} \ UrlStop)
    IN  IF head = 0 \/ n = 0 THEN -1 ELSE i + head + n

\* render_plain_text_with_links from the offset cursor on: URL_RE.finditer
\* from left to right, the text between the URLs escaped, each URL wrapped.
RECURSIVE render_plain_from(_, _, _)
render_plain_from(text, cursor, i) ==
    IF i >= Len(text) THEN html_escape(From(text, cursor))
    ELSE
        LET end == URL_RE_match(text, i) IN
        IF end < 0 THEN render_plain_from(text, cursor, i + 1)
        ELSE
            LET safe_url == html_escape(SubSeq(text, i + 1, end))
            IN  html_escape(SubSeq(text, cursor + 1, i))
                \o AnchorOpen \o safe_url \o ExternalAttrs \o safe_url \o AnchorClose
                \o render_plain_from(text, end, end)

render_plain_text_with_links(text) == render_plain_from(text, 0, 0)

\* The part render_line_with_links appends for a link whatever its target:
\* always a reference.
link_part_unresolved_too(line, m, source_relative_path, known_paths, id_to_path) ==
    LET raw_target == Strip(m.target)
        label == IF m.label = None THEN <<>> ELSE Strip(m.label)
        link_text == IF label # <<>> THEN label ELSE raw_target
    IN  AnchorOpen \o html_escape(note_href(raw_target, FALSE)) \o <<"'", ">">>
        \o html_escape(link_text) \o AnchorClose

\* The part render_line_with_links appends for the match m of ORG_LINK_RE
\* (lines 250-258).
link_part(line, m, source_relative_path, known_paths, id_to_path) ==
    LET raw_target == Strip(m.target)
        label == IF m.label = None THEN <<>> ELSE Strip(m.label)
        resolved == resolve_link_target(source_relative_path, raw_target,
                                        known_paths, id_to_path)
        link_text == IF label # <<>> THEN label ELSE raw_target
    IN  IF resolved # None /\ resolved # <<>>
        THEN AnchorOpen \o html_escape(note_href(resolved, FALSE)) \o <<"'", ">">>
             \o html_escape(link_text) \o AnchorClose
        ELSE render_plain_text_with_links(SubSeq(line, m.start + 1, m.end))

\* The loop of render_line_with_links over the matches, from the k-th on.
RECURSIVE render_line_from(_, _, _, _, _, _, _)
render_line_from(line, matches, k, cursor, source_relative_path, known_paths, id_to_path) ==
    IF k > Len(matches)
    THEN render_plain_text_with_links(From(line, cursor))
    ELSE render_plain_text_with_links(SubSeq(line, cursor + 1, matches[k].start))
         \o link_part(line, matches[k], source_relative_path, known_paths, id_to_path)
         \o render_line_from(line, matches, k + 1, matches[k].end,
                             source_relative_path, known_paths, id_to_path)

render_line_with_links(line, source_relative_path, known_paths, id_to_path) ==
    render_line_from(line, ORG_LINK_RE_finditer(line, 0), 1, 0,
                     source_relative_path, known_paths, id_to_path)

\* The decimal digit of a heading level (2 to 6).
Digit(n) == HexDigits[n + 1]

\* render_org_to_html on one line, the paragraph around the rendering of the
\* line without its leading blanks.
render_org_line_stripped(raw_line, source_relative_path, known_paths, id_to_path) ==
    LET line == UpTo(raw_line, Len(raw_line) - TrailingIn(raw_line, {"\n"}))
        stripped == LStrip(line)
        stars == Len(stripped) - Len(LStripChars(stripped, {"*"}))
        level == IF stars + 1 < 6 THEN stars + 1 ELSE 6
    IN  IF /\ StartsWith(stripped, <<"*">>)
           /\ stars > 0 /\ Len(stripped) > stars /\ stripped[stars + 1] = " "
        THEN <<"<", "h", Digit(level), ">">> \o html_escape(From(stripped, stars + 1))
             \o <<"<", "/", "h", Digit(level), ">">>
        ELSE IF stripped = <<>> THEN Spacer
        ELSE <<"<", "p", ">">>
             \o render_line_with_links(stripped, source_relative_path, known_paths,
                                       id_to_path)
             \o <<"<", "/", "p", ">">>

\* render_org_to_html on one line (lines 275-290).
render_org_line(raw_line, source_relative_path, known_paths, id_to_path) ==
    LET line == UpTo(raw_line, Len(raw_line) - TrailingIn(raw_line, {"\n"}))
        stripped == LStrip(line)
        stars == Len(stripped) - Len(LStripChars(stripped, {"*"}))
        level == IF stars + 1 < 6 THEN stars + 1 ELSE 6
    IN  IF /\ StartsWith(stripped, <<"*">>)
           /\ stars > 0 /\ Len(stripped) > stars /\ stripped[stars + 1] = " "
        THEN <<"<", "h", Digit(level), ">">> \o html_escape(From(stripped, stars + 1))
             \o <<"<", "/", "h", Digit(level), ">">>
        ELSE IF stripped = <<>> THEN Spacer
        ELSE <<"<", "p", ">">>
             \o render_line_with_links(line, source_relative_path, known_paths, id_to_path)
             \o <<"<", "/", "p", ">">>

render_org_to_html(content, source_relative_path, known_paths, id_to_path) ==
    LET lines == SplitLines(content)
    IN  Join([i \in DOMAIN lines |->
                render_org_line(lines[i], source_relative_path, known_paths, id_to_path)],
             <<"\n">>)

(***************************************************************************)
(* Bounds and inputs                                                       *)
(***************************************************************************)

\* The most files in the note directory.
MaxFiles == 2
\* The most lines of a note's content.
MaxLines == 2
\* The most spaces between a directive and its value.
MaxPad == 2
\* The most "../" steps at the head of a link target.
MaxUp == 2

\* n spaces.
Spaces(n) == [i \in 1..n |-> " "]

\* The texts of at most n lines drawn from lines, joined by "\n".
RECURSIVE Texts(_, _)
Texts(lines, n) ==
    IF n = 0 THEN {<<>>}
    ELSE Texts(lines, n - 1)
         \cup lines
         \cup {t \o <<"\n">> \o l : t \in Texts(lines, n - 1) \ {<<>>}, l \in lines}

\* The functions from at most n of the keys of f to their values under f.
Restrictions(f, n) ==
    {[k \in ks |-> f[k]] : ks \in {x \in SUBSET DOMAIN f : Cardinality(x) <= n}}

(***************************************************************************)
(* extract_org_title on its own                                            *)
(***************************************************************************)

\* Lines that do and do not hold a title directive.
TitleLines ==
    {pad \o key \o Spaces(n) \o val :
        pad \in {<<>>, <<" ">>},
        key \in {<<"#", "+", "T", "I", "T", "L", "E", ":">>, <<"#", "+", "T", "i", "t", "l", "e", ":">>, <<"#", "+", "T", "I", "T", "L", "E">>},
        n \in 0..MaxPad,
        val \in {<<>>, <<"T">>, <<"a", " ", "b", " ">>}}
    \cup {<<>>, <<"x">>}

TitleFallbacks == {<<"a">>, <<".", "o", "r", "g">>}

InitTitle ==
    /\ disk = <<>>
    /\ org_files = <<>>
    /\ args \in [content : Texts(TitleLines, MaxLines), fallback : TitleFallbacks]
    /\ result = None
    /\ pc = "call"

call_extract_org_title ==
    /\ pc = "call"
    /\ result' = extract_org_title(args.content, args.fallback)
    /\ pc' = "done"
    /\ UNCHANGED <<disk, org_files, args>>

NextTitle == call_extract_org_title

SpecTitle == InitTitle /\ [][NextTitle]_vars

(***************************************************************************)
(* One scan of the note directory                                          *)
(***************************************************************************)

\* File names and directories of the scanned tree.
ScanNames ==
    { <<"a", ".", "o", "r", "g">>,
      <<".", "a", ".", "o", "r", "g">>,
      <<"A", ".", "o", "r", "g">>,
      <<"a", ".", "O", "R", "G">>,
      <<"b", ".", "o", "r", "g">>,
      <<"a", ".", "t", "x", "t">> }
ScanDirs == {<<>>, <<<<"d">>>>, <<<<".", "d">>>>, <<<<".", "g", "i", "t">>>>}
ScanPaths == {dir \o <<name>> : dir \in ScanDirs, name \in ScanNames}
ScanContents == {<<>>, <<"#", "+", "T", "I", "T", "L", "E", ":", " ", "T", "\n", ":", "I", "D", ":", " ", "X">>}

\* The directories the scan may meet: at most MaxFiles files.
ScanDisks ==
    UNION {[ps -> ScanContents] :
             ps \in {x \in SUBSET ScanPaths : Cardinality(x) <= MaxFiles}}

InitScan ==
    /\ disk \in ScanDisks
    /\ org_files = <<>>
    /\ args = <<>>
    /\ result = None
    /\ pc = "scan"

\* org_files = scan_org_files(base_dir), as do_GET and do_POST begin.
scan ==
    /\ pc = "scan"
    /\ org_files' \in scan_org_files(disk)
    /\ pc' = "call"
    /\ UNCHANGED <<disk, args, result>>

NextScan == scan

SpecScan == InitScan /\ [][NextScan]_vars

\* C1: in the result of one scan no two files have the same relative_path
\* (the list holds one record per file on disk).
C1_RelativePathUnique ==
    pc = "call" =>
        \A i, j \in DOMAIN org_files :
            i # j => org_files[i].relative_path # org_files[j].relative_path

\* C2: extract_org_title returns a non-empty string, and the filename stem
\* when no line holds the title directive.
C2_TitleNonEmpty ==
    pc = "done" =>
        LET lines == SplitLines(args.content)
            directive(l) == StartsWith(Lower(LStrip(l)), TitleKey)
        IN  /\ result # <<>>
            /\ (\A i \in DOMAIN lines : ~directive(lines[i])) => result = args.fallback

(***************************************************************************)
(* Resolving one link target against a scanned corpus                      *)
(***************************************************************************)

\* The notes the corpus is drawn from: two directories, identifiers that
\* differ only in case, a file whose name reads like an id: link, and a file
\* whose name holds the extension twice.
ResolveFiles ==
    (<<<<"a", ".", "o", "r", "g">>>>
        :> <<":", "I", "D", ":", " ", "X", ".", "o", "r", "g">>)
    @@ (<<<<"d">>, <<"a", ".", "o", "r", "g">>>> :> <<>>)
    @@ (<<<<"b", ".", "o", "r", "g">>>> :> <<>>)
    @@ (<<<<"d">>, <<"b", ".", "o", "r", "g">>>>
        :> <<":", "I", "D", ":", " ", "x", ".", "o", "r", "g">>)
    @@ (<<<<"i", "d", ":", "x", ".", "o", "r", "g">>>> :> <<>>)
    @@ (<<<<"b", ".", "o", "r", "g", ".", "o", "r", "g">>>> :> <<>>)

ResolveDisks == Restrictions(ResolveFiles, MaxFiles)

\* "../" n times.
Ups(n) == [i \in 1..(3 * n) |-> IF i % 3 = 0 THEN "/" ELSE "."]

\* The raw targets: scheme, leading steps, path, extension, fragment.
TargetSchemes ==
    {<<>>, <<"i", "d", ":">>, <<"I", "D", ":">>, <<"I", "d", ":", " ">>, <<"f", "i", "l", "e", ":">>, <<"x", ":">>, <<"h", ":", "/", "/">>}
TargetSteps == {Ups(n) : n \in 0..MaxUp} \cup {<<"/">>, <<".", "/">>}
TargetNames == {<<"b">>, <<"x">>, <<"d", "/", "b">>}
TargetExts == {<<>>, DotOrg}
TargetFragments == {<<>>, <<":", ":", "s">>, <<"#", "s">>}

LinkTargets ==
    {scheme \o steps \o name \o ext \o fragment :
        scheme \in TargetSchemes, steps \in TargetSteps, name \in TargetNames,
        ext \in TargetExts, fragment \in TargetFragments}

InitResolve ==
    /\ disk \in ResolveDisks
    /\ org_files = <<>>
    /\ args = <<>>
    /\ result = None
    /\ pc = "scan"

\* One call of resolve_link_target as find_backlinks, build_backlink_counts
\* and render_line_with_links make it: the source is a note of the scan, the
\* indices are those of the scan.
call_resolve_link_target ==
    /\ pc = "call"
    /\ \E i \in DOMAIN org_files, raw_target \in LinkTargets :
        /\ args' = [ source_relative_path |-> org_files[i].relative_path,
                     raw_target |-> raw_target,
                     known_paths |-> known_paths_of(org_files),
                     id_to_path |-> id_to_path_of(org_files) ]
        /\ result' = resolve_link_target(args'.source_relative_path, raw_target,
                                         args'.known_paths, args'.id_to_path)
    /\ pc' = "done"
    /\ UNCHANGED <<disk, org_files>>

NextResolve == scan \/ call_resolve_link_target

SpecResolve == InitResolve /\ [][NextResolve]_vars

\* The raw target of the call, trimmed and cut at its fragment.
CutTarget == SplitFirst(SplitFirst(Strip(args.raw_target), <<":", ":">>), <<"#">>)

\* The notes of the scan whose identifier is id, whatever the case.
Defining(id) ==
    {i \in DOMAIN org_files :
        org_files[i].file_id # None /\ Lower(org_files[i].file_id) = Lower(id)}

\* C3: a target that starts with id: (in any case) resolves to the note that
\* defines the identifier, compared without case (the last such note of the
\* scan), and is unresolved when no note defines it; the known paths play no
\* part.
C3_IdTargetUsesIdentifierIndex ==
    (pc = "done" /\ StartsWith(Lower(CutTarget), <<"i", "d", ":">>)) =>
        LET id == Strip(From(CutTarget, 3)) IN
        IF Defining(id) = {} THEN result = None
        ELSE \E i \in Defining(id) :
                /\ \A j \in Defining(id) : j <= i
                /\ result = org_files[i].relative_path

\* C3 happens: an id: target whose own text is a known path resolves, through
\* an identifier written in another case, to a different note.
C3_Witness ==
    /\ pc = "done"
    /\ StartsWith(Lower(CutTarget), <<"i", "d", ":">>)
    /\ CutTarget \in args.known_paths
    /\ result \in args.known_paths
    /\ result # CutTarget
    /\ \E i \in DOMAIN org_files :
        /\ org_files[i].relative_path = result
        /\ org_files[i].file_id # Strip(From(CutTarget, 3))

\* The path a target names from the directory base (a list of names): "" and
\* "." name the directory itself, ".." its parent; Outside when ".." leaves
\* the corpus root.
Outside == <<"Outside">>
RECURSIVE Walk(_, _)
Walk(base, names) ==
    IF names = <<>> THEN base
    ELSE IF Head(names) = <<>> \/ Head(names) = <<".">> THEN Walk(base, Tail(names))
    ELSE IF Head(names) = <<".", ".">>
         THEN IF base = <<>> THEN Outside
              ELSE Walk(SubSeq(base, 1, Len(base) - 1), Tail(names))
    ELSE Walk(Append(base, Head(names)), Tail(names))

\* The directory of a note as a list of names.
DirNames(relative_path) ==
    LET names == Split(relative_path, "/") IN SubSeq(names, 1, Len(names) - 1)

\* C4: a target without a scheme names a path from the directory of the
\* source note, or from the corpus root when it begins with "/": the result
\* is that path when known, else that path with the note extension when
\* known, else unresolved.
C4_PathRelativeToSourceDirectory ==
    (pc = "done" /\ ~Contains(CutTarget, <<":">>) /\ CutTarget # <<>>) =>
        LET base == IF StartsWith(CutTarget, <<"/">>) THEN <<>>
                    ELSE DirNames(args.source_relative_path)
            names == Walk(base, Split(CutTarget, "/"))
            candidate == IF names = Outside THEN <<>> ELSE Join(names, <<"/">>)
        IN  result =
                IF candidate = <<>> THEN None
                ELSE IF candidate \in args.known_paths THEN candidate
                ELSE IF ~EndsWith(candidate, DotOrg)
                        /\ (candidate \o DotOrg) \in args.known_paths
                THEN candidate \o DotOrg
                ELSE None

\* The candidate of a call that resolves a path.
Candidate == link_candidate(args.source_relative_path, link_scheme(args.raw_target).target)

\* C5: a known candidate is returned unchanged; an unknown candidate that
\* ends in .org is unresolved; the candidate with .org added is returned
\* only for an unknown candidate that does not end in .org.
C5_ExtensionFallback ==
    (pc = "done" /\ link_scheme(args.raw_target).kind = "path") =>
        /\ Candidate \in args.known_paths => result = Candidate
        /\ (Candidate \notin args.known_paths /\ EndsWith(Candidate, DotOrg))
                => result = None
        /\ (Candidate \notin args.known_paths /\ ~EndsWith(Candidate, DotOrg)
                /\ Candidate # <<>>)
                => result = IF (Candidate \o DotOrg) \in args.known_paths
                            THEN Candidate \o DotOrg ELSE None
        /\ (result # None /\ result # Candidate)
                => /\ result = Candidate \o DotOrg
                   /\ Candidate \notin args.known_paths
                   /\ ~EndsWith(Candidate, DotOrg)

\* C5 happens: the candidate ends in .org and is unknown, the candidate with
\* a second .org is a known path, and the call is unresolved.
C5_Witness ==
    /\ pc = "done"
    /\ link_scheme(args.raw_target).kind = "path"
    /\ EndsWith(Candidate, DotOrg)
    /\ Candidate \notin args.known_paths
    /\ (Candidate \o DotOrg) \in args.known_paths
    /\ result = None

(***************************************************************************)
(* The backlinks of a scanned corpus                                       *)
(***************************************************************************)

\* The most notes of a corpus whose backlinks are computed.
MaxNotes == 3

\* The notes: a.org and .a.org (which the scan gives one relative_path), a
\* target b.org, a note in a directory; contents with several links to one
\* target, links to the note itself, a title that sorts last, an identifier.
BacklinkPaths ==
    { <<<<"a", ".", "o", "r", "g">>>>, <<<<".", "a", ".", "o", "r", "g">>>>,
      <<<<"b", ".", "o", "r", "g">>>>, <<<<"d">>, <<"a", ".", "o", "r", "g">>>> }

BacklinkContents ==
    { <<>>,
      \* [[b.org]] [[b][B]] [[a.org]]
      <<"[", "[", "b", ".", "o", "r", "g", "]", "]", " ",
        "[", "[", "b", "]", "[", "B", "]", "]", " ",
        "[", "[", "a", ".", "o", "r", "g", "]", "]">>,
      \* #+TITLE: Z, then [[/b.org]]
      <<"#", "+", "T", "I", "T", "L", "E", ":", " ", "Z", "\n",
        "[", "[", "/", "b", ".", "o", "r", "g", "]", "]">>,
      \* :ID: K, then [[id:k]]
      <<":", "I", "D", ":", " ", "K", "\n", "[", "[", "i", "d", ":", "k", "]", "]">>,
      \* [[../a]] [[a.org]]
      <<"[", "[", ".", ".", "/", "a", "]", "]", " ",
        "[", "[", "a", ".", "o", "r", "g", "]", "]">> }

BacklinkDisks ==
    UNION {[ps -> BacklinkContents] :
             ps \in {x \in SUBSET BacklinkPaths : Cardinality(x) <= MaxNotes}}

InitBacklinks ==
    /\ disk \in BacklinkDisks
    /\ org_files = <<>>
    /\ args = <<>>
    /\ result = None
    /\ pc = "scan"

\* backlinks = find_backlinks(org_files, selected.relative_path), as
\* build_index_page calls it: the selected path is that of a note of the scan.
call_find_backlinks ==
    /\ pc = "call"
    /\ \E i \in DOMAIN org_files :
        /\ args' = [fn |-> "find_backlinks",
                    selected_path |-> org_files[i].relative_path]
        /\ result' = find_backlinks(org_files, org_files[i].relative_path)
    /\ pc' = "done"
    /\ UNCHANGED <<disk, org_files>>

\* backlink_counts = build_backlink_counts(org_files).
call_build_backlink_counts ==
    /\ pc = "call"
    /\ args' = [fn |-> "build_backlink_counts"]
    /\ result' = build_backlink_counts(org_files)
    /\ pc' = "done"
    /\ UNCHANGED <<disk, org_files>>

NextBacklinks == scan \/ call_find_backlinks \/ call_build_backlink_counts

SpecBacklinks == InitBacklinks /\ [][NextBacklinks]_vars

\* The paths the links of the i-th note of the scan resolve to, one per link.
Resolved(i) ==
    LET targets == extract_org_link_targets(org_files[i].content)
    IN  [k \in DOMAIN targets |->
            resolve_link_target(org_files[i].relative_path, targets[k],
                                known_paths_of(org_files), id_to_path_of(org_files))]

\* Whether some link of the i-th note resolves to the path p.
LinksTo(i, p) == \E k \in DOMAIN Resolved(i) : Resolved(i)[k] = p

\* The notes other than those at p that link to p.
SourcesOf(p) ==
    {i \in DOMAIN org_files : org_files[i].relative_path # p /\ LinksTo(i, p)}

\* C6: build_backlink_counts maps exactly the relative paths of the corpus,
\* each to the number of notes at another path with a link resolving to it:
\* links of a note to itself add nothing, several links of one note to one
\* target add one.
C6_BacklinkCounts ==
    (pc = "done" /\ args.fn = "build_backlink_counts") =>
        /\ DOMAIN result = known_paths_of(org_files)
        /\ \A p \in DOMAIN result :
            /\ result[p] \in Nat
            /\ result[p] = Cardinality(SourcesOf(p))

\* C6 happens: one note links twice to another path and once to itself, and
\* the other path counts one.
C6_Witness ==
    /\ pc = "done"
    /\ args.fn = "build_backlink_counts"
    /\ \E i \in DOMAIN org_files, p \in DOMAIN result :
        /\ p # org_files[i].relative_path
        /\ Cardinality({k \in DOMAIN Resolved(i) : Resolved(i)[k] = p}) >= 2
        /\ LinksTo(i, org_files[i].relative_path)
        /\ result[p] = 1
        /\ result[org_files[i].relative_path] = 0

\* C7: find_backlinks returns every note other than the selected one that
\* has a link resolving to the selected path, each once, and none else, in
\* the order of (lower-cased title, lower-cased relative_path).
C7_Backlinks ==
    (pc = "done" /\ args.fn = "find_backlinks") =>
        /\ \A i, j \in DOMAIN result : i # j => result[i] # result[j]
        /\ \A i \in DOMAIN result : result[i].relative_path # args.selected_path
        /\ {result[i] : i \in DOMAIN result}
            = {org_files[i] : i \in SourcesOf(args.selected_path)}
        /\ \A i \in 1..(Len(result) - 1) :
            \/ StrLess(Lower(result[i].title), Lower(result[i + 1].title))
            \/ /\ Lower(result[i].title) = Lower(result[i + 1].title)
               /\ StrLeq(Lower(result[i].relative_path),
                         Lower(result[i + 1].relative_path))

\* What is left of C7 where the scan gave no two notes one relative_path:
\* there find_backlinks does as C7 says.
BacklinksOfUniquePaths ==
    (\A i, j \in DOMAIN org_files :
        i # j => org_files[i].relative_path # org_files[j].relative_path)
    => C7_Backlinks

\* build_index_page on a scanned corpus (lines 317-322): the selected note is
\* one of the scan, and both backlink operations run on the same corpus.
build_index_page_backlinks ==
    /\ pc = "call"
    /\ \E i \in DOMAIN org_files :
        LET selected == org_files[i] IN
        /\ args' = [fn |-> "build_index_page",
                    selected_path |-> selected.relative_path]
        /\ result' = [backlinks |-> find_backlinks(org_files, selected.relative_path),
                      backlink_counts |-> build_backlink_counts(org_files)]
    /\ pc' = "done"
    /\ UNCHANGED <<disk, org_files>>

NextIndex == scan \/ build_index_page_backlinks

SpecIndex == InitBacklinks /\ [][NextIndex]_vars

\* No two notes of the scan have one relative_path.
UniquePaths ==
    \A i, j \in DOMAIN org_files :
        i # j => org_files[i].relative_path # org_files[j].relative_path

\* C11: on a corpus with unique relative paths the count that
\* build_backlink_counts gives a note's path is the length of the list that
\* find_backlinks gives for it, which is the number of other notes with a
\* link resolving to that path.
C11_CountsAgreeWithBacklinks ==
    (pc = "done" /\ args.fn = "build_index_page" /\ UniquePaths) =>
        /\ result.backlink_counts[args.selected_path] = Len(result.backlinks)
        /\ Len(result.backlinks) = Cardinality(SourcesOf(args.selected_path))

\* C11 happens: on a corpus with unique paths two notes link to the selected
\* one, one of them more than once, and the selected note links to itself.
C11_Witness ==
    /\ pc = "done"
    /\ args.fn = "build_index_page"
    /\ UniquePaths
    /\ Len(result.backlinks) = 2
    /\ \E i \in DOMAIN org_files :
        /\ org_files[i].relative_path # args.selected_path
        /\ Cardinality({k \in DOMAIN Resolved(i) :
                          Resolved(i)[k] = args.selected_path}) >= 2
    /\ \E i \in DOMAIN org_files :
        /\ org_files[i].relative_path = args.selected_path
        /\ LinksTo(i, args.selected_path)

(***************************************************************************)
(* The rendering of a scanned note                                         *)
(***************************************************************************)

\* The most heading markers at the head of a line.
MaxStars == 7

\* Lines of a note: text with characters html.escape rewrites, text behind
\* leading blanks, an empty and a blank line, a heading, markers that open no
\* heading, a bare URL, links that resolve and links that do not, a link
\* left open.
RenderLines ==
    { \* a<b&c
      <<"a", "<", "b", "&", "c">>,
      \*  x'"y>  (behind one space)
      <<" ", "x", "'", "\"", "y", ">">>,
      <<>>,
      <<" ">>,
      \* * H
      <<"*", " ", "H">>,
      \* *b*
      <<"*", "b", "*">>,
      \* see http://u/?a&b ok
      <<"s", "e", "e", " ", "h", "t", "t", "p", ":", "/", "/", "u", "/", "?",
        "a", "&", "b", " ", "o", "k">>,
      \* [[nope.org][No<pe]]
      <<"[", "[", "n", "o", "p", "e", ".", "o", "r", "g", "]", "[", "N", "o",
        "<", "p", "e", "]", "]">>,
      \* [[b.org][B&]] [[nope]]
      <<"[", "[", "b", ".", "o", "r", "g", "]", "[", "B", "&", "]", "]", " ",
        "[", "[", "n", "o", "p", "e", "]", "]">>,
      \* [[id:k]] [[http://u][l]]
      <<"[", "[", "i", "d", ":", "k", "]", "]", " ",
        "[", "[", "h", "t", "t", "p", ":", "/", "/", "u", "]", "[", "l", "]", "]">>,
      \* [[ a.org ][]] [x]
      <<"[", "[", " ", "a", ".", "o", "r", "g", " ", "]", "[", "]", "]", " ",
        "[", "x", "]">>,
      \* [[b.org
      <<"[", "[", "b", ".", "o", "r", "g">> }

\* n heading markers.
Stars(n) == [i \in 1..n |-> "*"]

\* What follows the markers of a line: nothing, one space and nothing, one
\* space and a title, two spaces and a title, a title at once.
HeadingTails ==
    { <<>>, <<" ">>, <<" ", "H">>, <<" ", " ", "H">>, <<"H">>,
      <<" ", "<", "H", ">">>, <<"\t", "H">>, <<" ", "*">> }

\* One-line contents: blanks, markers, a tail.
HeadingContents ==
    {pad \o Stars(n) \o tail :
        pad \in {<<>>, <<" ">>, <<"\t", " ">>}, n \in 0..MaxStars, tail \in HeadingTails}

\* The note b.org that the links point to, with the identifier K.
RenderTarget ==
    [p \in {<<<<"b", ".", "o", "r", "g">>>>} |-> <<":", "I", "D", ":", " ", "K">>]

\* The directories: a.org with any of the contents, with and without b.org.
RenderDisks ==
    {[p \in {<<<<"a", ".", "o", "r", "g">>>>}
             \cup (IF present THEN DOMAIN RenderTarget ELSE {}) |->
        IF p \in DOMAIN RenderTarget THEN RenderTarget[p] ELSE content] :
        content \in Texts(RenderLines, MaxLines) \cup HeadingContents,
        present \in BOOLEAN}

InitRender ==
    /\ disk \in RenderDisks
    /\ org_files = <<>>
    /\ args = <<>>
    /\ result = None
    /\ pc = "scan"

\* body = render_org_to_html(selected.content, selected.relative_path,
\* known_paths, id_to_path), as build_index_page calls it on a note of the scan.
call_render_org_to_html ==
    /\ pc = "call"
    /\ \E i \in DOMAIN org_files :
        /\ args' = [fn |-> "render_org_to_html",
                    content |-> org_files[i].content,
                    source_relative_path |-> org_files[i].relative_path,
                    known_paths |-> known_paths_of(org_files),
                    id_to_path |-> id_to_path_of(org_files)]
        /\ result' = render_org_to_html(org_files[i].content, org_files[i].relative_path,
                                        known_paths_of(org_files), id_to_path_of(org_files))
    /\ pc' = "done"
    /\ UNCHANGED <<disk, org_files>>

\* render_line_with_links on one line of a note of the scan.
call_render_line_with_links ==
    /\ pc = "call"
    /\ \E i \in DOMAIN org_files :
        \E k \in DOMAIN SplitLines(org_files[i].content) :
            LET line == SplitLines(org_files[i].content)[k] IN
            /\ args' = [fn |-> "render_line_with_links",
                        line |-> line,
                        source_relative_path |-> org_files[i].relative_path,
                        known_paths |-> known_paths_of(org_files),
                        id_to_path |-> id_to_path_of(org_files)]
            /\ result' = render_line_with_links(line, org_files[i].relative_path,
                                                known_paths_of(org_files),
                                                id_to_path_of(org_files))
    /\ pc' = "done"
    /\ UNCHANGED <<disk, org_files>>

NextRender == scan \/ call_render_org_to_html \/ call_render_line_with_links

SpecRender == InitRender /\ [][NextRender]_vars

\* The lines of the rendered content, and a paragraph element around a body.
ContentLines == SplitLines(args.content)
Paragraph(body) == <<"<", "p", ">">> \o body \o <<"<", "/", "p", ">">>

\* The line opens with markers and a space behind its leading blanks.
HeadingForm(line) ==
    LET s == LStrip(line)
        n == LeadingIn(s, {"*"})
    IN  n >= 1 /\ Len(s) > n /\ s[n + 1] = " "

\* The line holds a bracketed link, holds a bare URL, is empty or blank.
HasLink(line) == ORG_LINK_RE_finditer(line, 0) # <<>>
HasUrl(line) == \E i \in 0..(Len(line) - 1) : URL_RE_match(line, i) >= 0
Blank(line) == LStrip(line) = <<>>

\* No line of the content is of heading form, holds a link or is blank.
PlainContent ==
    \A k \in DOMAIN ContentLines :
        /\ ~HeadingForm(ContentLines[k])
        /\ ~HasLink(ContentLines[k])
        /\ ~Blank(ContentLines[k])

\* C8: rendering a content of one line or more with no heading line, no
\* bracketed link and no blank line gives exactly one paragraph element
\* around the HTML-escaped content, whatever the number of its lines.
C8_OneParagraph ==
    ( /\ pc = "done"
      /\ args.fn = "render_org_to_html"
      /\ ContentLines # <<>>
      /\ PlainContent ) =>
        result = Paragraph(html_escape(args.content))

\* C8 as amended: rendering a content with no line of heading form, no
\* bracketed link, no bare URL and no blank line gives one paragraph element
\* for each line, in order and joined by line breaks, each around the
\* HTML-escaped text of its line; a content of one line gives one paragraph
\* around its escaped text.
C8_ParagraphPerLine ==
    ( /\ pc = "done"
      /\ args.fn = "render_org_to_html"
      /\ PlainContent
      /\ \A k \in DOMAIN ContentLines : ~HasUrl(ContentLines[k]) ) =>
        /\ result = Join([k \in DOMAIN ContentLines |->
                            Paragraph(html_escape(ContentLines[k]))], <<"\n">>)
        /\ ContentLines = <<args.content>>
            => result = Paragraph(html_escape(args.content))

\* C8 happens: a content of several plain lines, with characters that
\* html.escape rewrites, was rendered.
C8_Witness ==
    /\ pc = "done"
    /\ args.fn = "render_org_to_html"
    /\ PlainContent
    /\ \A k \in DOMAIN ContentLines : ~HasUrl(ContentLines[k])
    /\ Len(ContentLines) >= 2
    /\ \E k \in DOMAIN ContentLines : StartsWith(ContentLines[k], <<" ">>)
    /\ html_escape(args.content) # args.content

\* What render_org_to_html wrote for each line.
RenderedLines == IF result = <<>> THEN <<>> ELSE Split(result, "\n")

\* C9: a line is rendered as a heading element exactly when, behind its
\* leading blanks, it is n >= 1 markers, a space and a remainder that is not
\* empty; the element is of level min(n + 1, 6) around the escaped remainder.
\* Markers and a space with nothing behind them give no heading.
C9_HeadingRule ==
    (pc = "done" /\ args.fn = "render_org_to_html") =>
        /\ Len(RenderedLines) = Len(ContentLines)
        /\ \A k \in DOMAIN ContentLines :
            LET s == LStrip(ContentLines[k])
                n == LeadingIn(s, {"*"})
                level == IF n + 1 < 6 THEN n + 1 ELSE 6
                heading == HeadingForm(ContentLines[k]) /\ Len(s) > n + 1
            IN  /\ StartsWith(RenderedLines[k], <<"<", "h">>) <=> heading
                /\ heading =>
                    RenderedLines[k] =
                        <<"<", "h", Digit(level), ">">> \o html_escape(From(s, n + 1))
                        \o <<"<", "/", "h", Digit(level), ">">>

\* The links of the rendered line, what each resolves to, and its text.
LineLinks == ORG_LINK_RE_finditer(args.line, 0)
LinkResolved(k) ==
    resolve_link_target(args.source_relative_path, Strip(LineLinks[k].target),
                        args.known_paths, args.id_to_path)
Resolving == {k \in DOMAIN LineLinks : LinkResolved(k) # None /\ LinkResolved(k) # <<>>}
LinkText(k) ==
    LET label == IF LineLinks[k].label = None THEN <<>> ELSE Strip(LineLinks[k].label)
    IN  IF label # <<>> THEN label ELSE Strip(LineLinks[k].target)

\* The line as a reader sees it: each resolving link replaced by its text,
\* every other character as written.
RECURSIVE Visible(_, _)
Visible(k, cursor) ==
    IF k > Len(LineLinks) THEN From(args.line, cursor)
    ELSE SubSeq(args.line, cursor + 1, LineLinks[k].start)
         \o (IF k \in Resolving THEN LinkText(k)
             ELSE SubSeq(args.line, LineLinks[k].start + 1, LineLinks[k].end))
         \o Visible(k + 1, LineLinks[k].end)

\* The number of occurrences of p in s, and s without its tags.
CountOf(s, p) ==
    Cardinality({i \in 0..(Len(s) - Len(p)) : SubSeq(s, i + 1, i + Len(p)) = p})
RECURSIVE StripTags(_)
StripTags(s) ==
    IF s = <<>> THEN <<>>
    ELSE IF Head(s) = "<"
         THEN IF Contains(s, <<">">>) THEN StripTags(From(s, Find(s, <<">">>) + 1)) ELSE s
         ELSE <<Head(s)>> \o StripTags(Tail(s))

\* The head of a reference to a note, and of one to an http(s) URL.
InternalOpen == AnchorOpen \o <<"/", "?", "f", "i", "l", "e", "=">>
ExternalOpen == AnchorOpen \o <<"h", "t", "t", "p">>

\* C10: render_line_with_links writes a reference to a note for the links
\* that resolve and for no other: as many references to notes as resolving
\* links, each to the resolved path around the escaped label or raw target;
\* every other tag belongs to a reference around an http(s) URL; and without
\* its tags the output is the escaped line with each resolving link replaced
\* by its text, so a link that does not resolve is its escaped bracketed text.
C10_OnlyResolvedLinksNavigate ==
    (pc = "done" /\ args.fn = "render_line_with_links") =>
        /\ CountOf(result, InternalOpen) = Cardinality(Resolving)
        /\ \A k \in Resolving :
            Contains(result,
                     AnchorOpen \o html_escape(note_href(LinkResolved(k), FALSE))
                     \o <<"'", ">">> \o html_escape(LinkText(k)) \o AnchorClose)
        /\ CountOf(result, <<"<">>)
            = 2 * (Cardinality(Resolving) + CountOf(result, ExternalOpen))
        /\ StripTags(result) = html_escape(Visible(1, 0))

\* C10 happens: a line with a link that resolves and one that does not, and
\* with characters that html.escape rewrites, was rendered.
C10_Witness ==
    /\ pc = "done"
    /\ args.fn = "render_line_with_links"
    /\ Resolving # {}
    /\ Resolving # DOMAIN LineLinks
    /\ html_escape(args.line) # args.line

(***************************************************************************)
(* Edit requests                                                           *)
(***************************************************************************)

\* The most edit requests in flight or handled.
MaxRequests == 2

Requests == 1..MaxRequests

\* find_org_file: the index in org_files of the first note at relative_path,
\* 0 where the code returns None.
find_org_file(files, relative_path) ==
    LET hits == {i \in DOMAIN files : files[i].relative_path = relative_path}
    IN  IF relative_path = None \/ hits = {} THEN 0
        ELSE CHOOSE i \in hits : \A j \in hits : i <= j

\* params.get(key, [default])[0] after parse_qs, which drops the fields that
\* are absent (None here) or blank.
parse_qs_first(field, default) ==
    IF field = None \/ field = <<>> THEN default ELSE field

\* urlencode of a list of <<key, value>>, and the Location that
\* redirect_with_query answers with.
urlencode(params) ==
    Join([k \in DOMAIN params |-> params[k][1] \o <<"=">> \o quote_plus(params[k][2])],
         <<"&">>)
redirect_with_query(path, params) == path \o <<"?">> \o urlencode(params)

\* The keys and values of the redirects of do_POST.
KeyFile == <<"f", "i", "l", "e">>
KeyEdit == <<"e", "d", "i", "t">>
KeyError == <<"e", "r", "r", "o", "r">>
KeySaved == <<"s", "a", "v", "e", "d">>
Missing == <<"m", "i", "s", "s", "i", "n", "g">>

\* The directories: a.org and b.org, or a.org alone, or no note.
PostDisks ==
    Restrictions([p \in {<<<<"a", ".", "o", "r", "g">>>>, <<<<"b", ".", "o", "r", "g">>>>} |->
                    <<"o", "l", "d">>], MaxFiles)

\* The 'file' fields of the forms: absent, blank, a.org, b.org, a note that
\* is not there; and the 'content' fields: blank, two texts of different
\* lengths, a text with the line break of a form submission.
PostFileFields ==
    { None, <<>>, <<"a", ".", "o", "r", "g">>, <<"b", ".", "o", "r", "g">>,
      <<"c", ".", "o", "r", "g">> }
PostContentFields ==
    { <<>>, <<"a", "b">>, <<"x", "y", "z">>, <<"x", "\r", "\n", "y">> }

InitPost ==
    /\ disk \in PostDisks
    /\ org_files = [r \in Requests |-> <<>>]
    /\ args = [r \in Requests |-> <<>>]
    /\ result = [r \in Requests |-> None]
    /\ pc = [r \in Requests |-> "start"]

\* do_POST up to the write (lines 447-461): the fields of the form, the scan,
\* find_org_file, and the redirect where no note is selected.
do_POST ==
    \E r \in Requests, file \in PostFileFields, content \in PostContentFields,
       files \in scan_org_files(disk) :
        LET selected_path == parse_qs_first(file, None)
            new_content == parse_qs_first(content, <<>>)
            selected == find_org_file(files, selected_path)
        IN  /\ pc[r] = "start"
            /\ args' = [args EXCEPT ![r] = [selected_path |-> selected_path,
                                           new_content |-> new_content]]
            /\ org_files' = [org_files EXCEPT ![r] = files]
            /\ IF selected = 0
               THEN /\ result' = [result EXCEPT ![r] =
                         redirect_with_query(<<"/">>, <<<<KeyEdit, <<"1">>>>,
                                                       <<KeyError, Missing>>>>)]
                    /\ pc' = [pc EXCEPT ![r] = "done"]
               ELSE /\ result' = result
                    /\ pc' = [pc EXCEPT ![r] = "write_text"]
            /\ UNCHANGED disk

\* selected.path.write_text(new_content), first part: the file is opened for
\* writing, which empties it.  Every file of the model can be written, so
\* the OSError branch (lines 466-468) is never taken.
write_text_open ==
    \E r \in Requests :
        LET selected == org_files[r][find_org_file(org_files[r], args[r].selected_path)]
        IN  /\ pc[r] = "write_text"
            /\ disk' = [disk EXCEPT ![selected.path] = <<>>]
            /\ pc' = [pc EXCEPT ![r] = "write"]
            /\ UNCHANGED <<org_files, args, result>>

\* write_text, second part, and the redirect (lines 463-470): the text goes to
\* the head of the file, over what the file holds there by now, and the
\* request is answered as saved.
write_text_close ==
    \E r \in Requests :
        LET selected == org_files[r][find_org_file(org_files[r], args[r].selected_path)]
            data == args[r].new_content
        IN  /\ pc[r] = "write"
            /\ disk' = [disk EXCEPT ![selected.path] = data \o From(@, Len(data))]
            /\ result' = [result EXCEPT ![r] =
                  redirect_with_query(<<"/">>, <<<<KeyFile, selected.relative_path>>,
                                                <<KeyEdit, <<"1">>>>,
                                                <<KeySaved, <<"1">>>>>>)]
            /\ pc' = [pc EXCEPT ![r] = "done"]
            /\ UNCHANGED <<org_files, args>>

NextPost == do_POST \/ write_text_open \/ write_text_close

SpecPost == InitPost /\ [][NextPost]_vars

\* The relative path the scan gives the file at p, and the redirect that
\* answers a request with no note to edit.
RelativePathOf(p) == normalize_relative_path(Join(p, <<"/">>))
MissingRedirect ==
    <<"/", "?", "e", "d", "i", "t", "=", "1", "&",
      "e", "r", "r", "o", "r", "=", "m", "i", "s", "s", "i", "n", "g">>

\* The request r is taken up in this step, and is answered in this step
\* after a write.
TakenUp(r) == pc[r] = "start" /\ pc'[r] # "start"
Written(r) == pc[r] = "write" /\ pc'[r] = "done"

\* C12: in every step of every sequence or interleaving of edit requests,
\* a request whose 'file' value is the relative_path of no note of its scan
\* writes no file and is answered with the 'missing' redirect, and no other
\* request is; a request whose 'file' value matches leaves, when its write is
\* done, the submitted content in the file of that note; a file changes only
\* while a request that selected it writes it, so that between writes it
\* holds its original content or the last edit written to it; and the scan
\* of a request returns for every note the content its file holds.
C12_EditsLastWriteWins ==
    [][ \A r \in Requests :
          /\ TakenUp(r) =>
                /\ \A i \in DOMAIN org_files'[r] :
                      org_files'[r][i].content = disk[org_files'[r][i].path]
                /\ IF args'[r].selected_path \in known_paths_of(org_files'[r])
                   THEN result'[r] # MissingRedirect
                   ELSE /\ disk' = disk
                        /\ pc'[r] = "done"
                        /\ result'[r] = MissingRedirect
          /\ Written(r) =>
                \E p \in DOMAIN disk :
                    /\ RelativePathOf(p) = args[r].selected_path
                    /\ disk'[p] = args[r].new_content
                    /\ \A q \in DOMAIN disk \ {p} : disk'[q] = disk[q]
          /\ \A p \in DOMAIN disk :
                disk'[p] # disk[p] =>
                    \E w \in Requests :
                        /\ pc[w] \in {"write_text", "write"}
                        /\ pc'[w] # pc[w]
                        /\ RelativePathOf(p) = args[w].selected_path
      ]_vars

====
